---- MODULE Spec2Model ----
(***************************************************************************)
(* Model of the two scripts of portable_env:                               *)
(*   scripts/soar_fetch_static.py  the Asset Resolver (one repository)     *)
(*   scripts/batch_soar_fetch.py   the Batch Orchestrator (many)           *)
(* The external `soar` CLI, the `file` command and the filesystem are      *)
(* the environment: what they return is a nondeterministic input.          *)
(* Strings whose characters matter (repository identifiers, file names,    *)
(* manifest entries) are sequences of one-character strings.               *)
(***************************************************************************)
EXTENDS Integers, Sequences, FiniteSets, TLC

VARIABLES
    \* ---- Asset Resolver (soar_fetch_static.py) ----
    args,        \* parsed command line: repo, help, dest, arch
    env,         \* machine(), shutil.which("soar"), mkdir result
    pc,          \* position in main()
    arch,        \* normalized architecture
    regex_i,     \* index of the next pattern of the current tier
    attempts,    \* every subprocess spawned so far, in order
    last,        \* what the last subprocess did and how it was judged
    dest_dir,    \* files in --dest
    exit_code,   \* -1 while running
    \* ---- Batch Orchestrator (batch_soar_fetch.py) ----
    b_args,      \* command line and environment of the batch run
    b_pc,        \* position in main()
    b_arch,      \* map_arch(args.target_arch)
    packages,    \* parse_packages(args.packages)
    b_i,         \* index of the next package of the fetch loop
    failures,    \* failures list of main()
    invocations, \* every resolver subprocess spawned so far, in order
    staging,     \* base_temp: directory name -> file name -> file
    bin,         \* output bin directory: file name -> file
    failed_log,  \* <output-dir>/FAILED_FETCHES.txt
    stdout,      \* the log lines the claims are about
    walked,      \* staged files process_downloaded_files has visited
    b_exit,      \* -1 while running
    \* ---- parse_packages on a manifest file ----
    p_entries,   \* the list L the manifest files are written from
    p_pc,
    p_result     \* shape -> parsed package list

vars == <<args, env, pc, arch, regex_i, attempts, last, dest_dir, exit_code,
          b_args, b_pc, b_arch, packages, b_i, failures, invocations, staging,
          bin, failed_log, stdout, walked, b_exit, p_entries, p_pc, p_result>>

resolver_vars == <<args, env, pc, arch, regex_i, attempts, last, dest_dir, exit_code>>

batch_vars == <<b_args, b_pc, b_arch, packages, b_i, failures, invocations,
                staging, bin, failed_log, stdout, walked, b_exit>>

parse_vars == <<p_entries, p_pc, p_result>>

----------------------------------------------------------------------------
\* Strings as sequences of characters

None == "None"

\* Python: sub in s
HasSub(s, sub) ==
    \E i \in 0..(Len(s) - Len(sub)) :
        \A j \in 1..Len(sub) : s[i + j] = sub[j]

\* Python: s.replace(from, to) for single characters
Replace(s, from, to) ==
    [i \in 1..Len(s) |-> IF s[i] = from THEN to ELSE s[i]]

\* number of occurrences of character c in s
RECURSIVE Count(_, _)
Count(s, c) ==
    IF s = <<>> THEN 0
    ELSE (IF Head(s) = c THEN 1 ELSE 0) + Count(Tail(s), c)

\* Python: a | b on permission bits
RECURSIVE BitOr(_, _)
BitOr(a, b) ==
    IF a = 0 THEN b
    ELSE IF b = 0 THEN a
    ELSE (IF a % 2 = 1 \/ b % 2 = 1 THEN 1 ELSE 0) + 2 * BitOr(a \div 2, b \div 2)

\* every bit of b is set in a
HasBits(a, b) == BitOr(a, b) = a

\* 0o111: a+x
ExecBits == 73

----------------------------------------------------------------------------
\* Files

\* content classes, by the first bytes of the file
Kinds == {"elf", "shebang", "other"}

\* permission bits a file may have: 0o644, 0o755
Modes == {420, 493}

NameTool == <<"t">>
NameShelf == <<"E", "L", "F">>
Names == {NameTool, NameShelf}

NoFile == [kind |-> None]

\* what soar may leave in the directory it extracts into: nothing, or one file
Extractions == {NoFile} \cup [name : {NameTool}, kind : Kinds, mode : Modes]

\* what a resolver run may leave in its --dest directory: nothing, or one file;
\* the name of one of them holds the letters ELF while its content does not
Staged ==
    {NoFile} \cup [name : {NameTool}, kind : Kinds, mode : {420}]
             \cup [name : {NameShelf}, kind : {"other"}, mode : {420}]

----------------------------------------------------------------------------
\* Asset Resolver: soar_fetch_static.py

RepoOwnerName == <<"a", "/", "b">>
RepoNoSlash == <<"a", "b">>
RepoTwoSlashes == <<"a", "/", "b", "/", "c">>
Repos == {<<>>, RepoNoSlash, RepoOwnerName, RepoTwoSlashes}

ArchArgs == {None, "x86_64", "amd64", "arm64", "aarch64", "riscv64"}
Machines == {"x86_64", "aarch64", "riscv64"}

\* die(): a failed normalization is reported as None, the caller exits 1
detect_arch(machine_type) ==
    IF machine_type \in {"x86_64", "amd64"} THEN "x86_64"
    ELSE IF machine_type \in {"aarch64", "arm64"} THEN "arm64"
    ELSE None

validate_arch(a) ==
    IF a \in {"x86_64", "amd64"} THEN "x86_64"
    ELSE IF a \in {"arm64", "aarch64"} THEN "arm64"
    ELSE None

get_regex_list(a) ==
    IF a = "x86_64" THEN
        << "(?i).*x86[_-]?64.*musl.*\\.tar\\.(?:gz|xz)$",
           "(?i).*amd64.*musl.*\\.tar\\.(?:gz|xz)$",
           "(?i).*x86.*musl.*\\.tar\\.(?:gz|xz)$",
           "(?i).*64.*musl.*\\.tar\\.(?:gz|xz)$",
           "(?i).*musl.*x86.*\\.tar\\.(?:gz|xz)$" >>
    ELSE
        << "(?i).*aarch64.*musl.*\\.tar\\.(?:gz|xz)$",
           "(?i).*arm64.*musl.*\\.tar\\.(?:gz|xz)$",
           "(?i).*arm.*musl.*\\.tar\\.(?:gz|xz)$",
           "(?i).*aarch.*musl.*\\.tar\\.(?:gz|xz)$",
           "(?i).*musl.*arm.*\\.tar\\.(?:gz|xz)$" >>

get_generic_regex_list(a) ==
    IF a = "x86_64" THEN
        << "(?i).*x86[_-]?64.*linux.*\\.tar\\.(?:gz|xz)$",
           "(?i).*amd64.*linux.*\\.tar\\.(?:gz|xz)$",
           "(?i).*x86.*linux.*\\.tar\\.(?:gz|xz)$",
           "(?i).*linux.*x86[_-]?64.*\\.tar\\.(?:gz|xz)$",
           "(?i).*linux.*amd64.*\\.tar\\.(?:gz|xz)$",
           "(?i).*x86[_-]?64.*\\.tar\\.(?:gz|xz)$",
           "(?i).*amd64.*\\.tar\\.(?:gz|xz)$" >>
    ELSE
        << "(?i).*aarch64.*linux.*\\.tar\\.(?:gz|xz)$",
           "(?i).*arm64.*linux.*\\.tar\\.(?:gz|xz)$",
           "(?i).*arm.*linux.*\\.tar\\.(?:gz|xz)$",
           "(?i).*aarch.*linux.*\\.tar\\.(?:gz|xz)$",
           "(?i).*linux.*aarch64.*\\.tar\\.(?:gz|xz)$",
           "(?i).*linux.*arm64.*\\.tar\\.(?:gz|xz)$",
           "(?i).*aarch64.*\\.tar\\.(?:gz|xz)$",
           "(?i).*arm64.*\\.tar\\.(?:gz|xz)$" >>

\* the pattern list main() hands to attempt_download_github_multi in a tier
TierRegexes(tier, a) ==
    IF tier = "tier1" THEN get_regex_list(a) ELSE get_generic_regex_list(a)

\* the command line of attempt_download_github / attempt_download_generic:
\* soar dl -y --regex <regex> --github <repo> --extract --extract-dir <dest_dir> -o <tmpd>
github_cmd(r, regex, dest, tmpd) ==
    [regex |-> regex, github |-> r, extract_dir |-> dest, o |-> tmpd, cwd |-> "cwd"]

\* the command line of attempt_download_soar: soar dl <pkg> -y, run in dest_dir
soar_cmd(pkg, dest) ==
    [regex |-> None, github |-> None, extract_dir |-> None, o |-> None, cwd |-> dest]

\* what one soar subprocess of a GitHub-scoped attempt may do: subprocess.run may
\* raise; otherwise soar exits with some code, leaves the -o directory empty or
\* not, and extracts nothing or a file into the --extract-dir directory
GithubRuns ==
    [raised : {FALSE}, returncode : {0, 1}, out_nonempty : BOOLEAN,
     sentinel : {FALSE}, extracted : Extractions]
    \cup
    [raised : {TRUE}, returncode : {1}, out_nonempty : {FALSE},
     sentinel : {FALSE}, extracted : {NoFile}]

\* what the soar subprocess of the index lookup may do: os.chdir or subprocess.run
\* may raise; otherwise soar exits with some code, its output holds one of the
\* error sentinels or not, and it writes nothing or a file into its directory
SoarRuns ==
    [raised : {FALSE}, returncode : {0, 1}, out_nonempty : {FALSE},
     sentinel : BOOLEAN, extracted : Extractions]
    \cup
    [raised : {TRUE}, returncode : {1}, out_nonempty : {FALSE},
     sentinel : {FALSE}, extracted : {NoFile}]

\* attempt_download_github, attempt_download_generic: any(tmp_path.iterdir())
attempt_download_github(run) ==
    ~run.raised /\ run.out_nonempty

\* attempt_download_soar
attempt_download_soar(run) ==
    ~run.raised /\ ~(run.returncode # 0 \/ run.sentinel)

\* attempt_download_github_multi: does the loop return after pattern i of n
multi_returns_never_early(i, n, ok) == i = n

attempt_download_github_multi(i, n, ok) == ok \/ i = n

\* main(): where the run goes when a tier has returned ok
main_after_tier(tier, ok) ==
    IF ok THEN [pc |-> "exited", code |-> 0]
    ELSE IF tier = "tier1" THEN [pc |-> "tier2", code |-> -1]
    ELSE IF tier = "tier2" THEN [pc |-> "tier3", code |-> -1]
    ELSE [pc |-> "exited", code |-> 1]

\* the file a subprocess left in dest_dir, tagged with the tier of its attempt
\* and the verdict on it
Wrote(run, ok) ==
    IF run.extracted = NoFile THEN dest_dir
    ELSE [dest_dir EXCEPT ![run.extracted.name] =
            [kind |-> run.extracted.kind, mode |-> run.extracted.mode, ok |-> ok,
             tier |-> pc]]

NoLast == [tier |-> None, raised |-> FALSE, returncode |-> 0, out_nonempty |-> FALSE,
           extracted |-> FALSE, ok |-> FALSE]

Last(tier, run, ok) ==
    [tier |-> tier, raised |-> run.raised, returncode |-> run.returncode,
     out_nonempty |-> run.out_nonempty, extracted |-> run.extracted # NoFile, ok |-> ok]

Die == pc' = "exited" /\ exit_code' = 1

NoArgs == [repo |-> <<>>, help |-> FALSE, dest |-> FALSE, arch |-> None]
NoEnv == [machine |-> "x86_64", soar |-> FALSE, mkdir |-> FALSE]
EmptyDir == [n \in Names |-> NoFile]


\* parse_args()
ParseArgs ==
    /\ pc = "parse_args"
    /\ UNCHANGED <<batch_vars, parse_vars>>
    /\ IF args.help \/ args.repo = <<>>
         THEN pc' = "exited" /\ exit_code' = (IF args.help THEN 0 ELSE 1)
       ELSE IF ~args.dest THEN Die
       ELSE IF ~HasSub(args.repo, <<"/">>) THEN Die
       ELSE pc' = "arch" /\ exit_code' = exit_code
    /\ UNCHANGED <<args, env, arch, regex_i, attempts, last, dest_dir>>

\* main(): arch = args.arch if args.arch else detect_arch(); arch = validate_arch(arch)
NormalizeArch ==
    /\ pc = "arch"
    /\ UNCHANGED <<batch_vars, parse_vars>>
    /\ LET detected == IF args.arch # None THEN args.arch ELSE detect_arch(env.machine)
           a == IF detected = None THEN None ELSE validate_arch(detected)
       IN IF a = None
            THEN Die /\ arch' = arch
            ELSE pc' = "mkdir" /\ arch' = a /\ exit_code' = exit_code
    /\ UNCHANGED <<args, env, regex_i, attempts, last, dest_dir>>

\* main(): dest_path.mkdir(parents=True, exist_ok=True)
MakeDest ==
    /\ pc = "mkdir"
    /\ UNCHANGED <<batch_vars, parse_vars>>
    /\ IF env.mkdir THEN pc' = "tier1" /\ exit_code' = exit_code ELSE Die
    /\ UNCHANGED <<args, env, arch, regex_i, attempts, last, dest_dir>>

\* one pass of the loop of attempt_download_github_multi, and main()'s step
\* after it when the loop returns
AttemptGithub ==
    /\ pc \in {"tier1", "tier3"}
    /\ UNCHANGED <<batch_vars, parse_vars>>
    /\ IF ~env.soar
         THEN Die /\ UNCHANGED <<regex_i, attempts, last, dest_dir>>
       ELSE \E run \in GithubRuns :
            LET regexes == TierRegexes(pc, arch)
                ok == attempt_download_github(run)
                cmd == github_cmd(args.repo, regexes[regex_i], "dest", "tmpd")
                after == main_after_tier(pc, ok)
            IN /\ attempts' = Append(attempts, [tier |-> pc, cmd |-> cmd, ok |-> ok])
               /\ last' = Last(pc, run, ok)
               /\ dest_dir' = (IF cmd.extract_dir = "dest" THEN Wrote(run, ok) ELSE dest_dir)
               /\ IF attempt_download_github_multi(regex_i, Len(regexes), ok)
                    THEN pc' = after.pc /\ exit_code' = after.code /\ regex_i' = 1
                    ELSE pc' = pc /\ exit_code' = exit_code /\ regex_i' = regex_i + 1
    /\ UNCHANGED <<args, env, arch>>

\* attempt_download_soar, and main()'s step after it
AttemptSoar ==
    /\ pc = "tier2"
    /\ UNCHANGED <<batch_vars, parse_vars>>
    /\ IF ~env.soar
         THEN Die /\ UNCHANGED <<regex_i, attempts, last, dest_dir>>
       ELSE \E run \in SoarRuns :
            LET ok == attempt_download_soar(run)
                cmd == soar_cmd(args.repo, "dest")
                after == main_after_tier(pc, ok)
            IN /\ attempts' = Append(attempts, [tier |-> pc, cmd |-> cmd, ok |-> ok])
               /\ last' = Last(pc, run, ok)
               /\ dest_dir' = Wrote(run, ok)
               /\ pc' = after.pc /\ exit_code' = after.code /\ regex_i' = 1
    /\ UNCHANGED <<args, env, arch>>

ResolverNext ==
    \/ ParseArgs
    \/ NormalizeArch
    \/ MakeDest
    \/ AttemptGithub
    \/ AttemptSoar

----------------------------------------------------------------------------
\* Batch Orchestrator: batch_soar_fetch.py

\* the longest package list of a batch run
MaxPkgs == 2

RepoABC == <<"a", "/", "b", "_", "c">>
RepoA_BC == <<"a", "_", "b", "/", "c">>
RepoDE == <<"d", "/", "e">>
BatchRepos == {RepoABC, RepoA_BC, RepoDE}

TargetArchs == {"x86_64", "amd64", "arm64", "aarch64", "riscv64"}

PackageLists == UNION {[1..n -> BatchRepos] : n \in 0..MaxPkgs}

map_arch(target_arch) ==
    IF target_arch = "arm64" THEN "arm64" ELSE "x86_64"

\* fetch_package: temp_dir / f"fetch_{repo.replace('/', '_')}"
temp_fetch_dir(r) == <<"f", "e", "t", "c", "h", "_">> \o Replace(r, "/", "_")

Dirs == {temp_fetch_dir(r) : r \in BatchRepos}

\* the path of a staged file below base_temp (tempfile names base_temp itself
\* with lower-case letters, digits and '_')
StagedPath(dir, name) == dir \o <<"/">> \o name

\* what `file -L <path>` prints: the path, then what it makes of the content
FileDescription(kind) ==
    IF kind = "elf" THEN <<"E", "L", "F", " ", "6", "4">>
    ELSE IF kind = "shebang" THEN <<"s", "c", "r", "i", "p", "t">>
    ELSE <<"d", "a", "t", "a">>

FileStdout(path, kind) == path \o <<":", " ">> \o FileDescription(kind)

\* is_elf_binary: "ELF" in result.stdout; False when the file command raises
is_elf_binary(path, kind, file_cmd) ==
    file_cmd /\ HasSub(FileStdout(path, kind), <<"E", "L", "F">>)

\* is_shebang_script: first_bytes == b"#!"
is_shebang_script(kind) == kind = "shebang"

\* what one resolver subprocess may do, as fetch_package sees it: exit 0, exit
\* non-zero, run into the 300 s timeout, or subprocess.run raises; and the file
\* it left in its --dest directory, if any. A run that fails may leave a file
\* behind too (soar extracts into --dest before the attempt is judged); one
\* such file is explored, for the non-zero exit
ResolverRuns ==
    [outcome : {"exit0"}, staged : Staged]
    \cup [outcome : {"exit1"},
          staged : {NoFile, [name |-> NameTool, kind |-> "elf", mode |-> 420]}]
    \cup [outcome : {"timeout", "error"}, staged : {NoFile}]

\* fetch_package: the success flag it returns
fetch_package(run) == run.outcome = "exit0"

\* main(): "if not success: failures.append(repo)"
main_failures_drop(fs, r, success) == fs

main_failures(fs, r, success) == IF success THEN fs ELSE Append(fs, r)

\* Python: sep.join(list)
RECURSIVE Join(_, _)
Join(list, sep) ==
    IF list = <<>> THEN <<>>
    ELSE IF Len(list) = 1 THEN list[1]
    ELSE list[1] \o sep \o Join(Tail(list), sep)

\* main(): "FAILED_FETCHES:" + ",".join(failures) + "\n"
FailedPrefix ==
    <<"F", "A", "I", "L", "E", "D", "_", "F", "E", "T", "C", "H", "E", "S", ":">>

failed_line(fs) == FailedPrefix \o Join(fs, <<",">>) \o <<"\n">>

\* main(): "if failures:" guards the write of FAILED_FETCHES.txt
main_writes_log_always(fs) == TRUE

main_writes_log(fs) == fs # <<>>

\* set_executable_permissions: new_mode = current_mode | 0o111
chmod_keeps_mode(current_mode) == current_mode

new_mode(current_mode) == BitOr(current_mode, ExecBits)

\* process_downloaded_files: "if dest_path.exists(): skip"
skip_never(b, name) == FALSE

dest_path_exists(b, name) == b[name] # NoFile

\* the bin directory before the run: empty, or holding a file named like a
\* staged one, with or without the executable bits
EmptyBin == [n \in Names |-> NoFile]
PreBins ==
    {EmptyBin} \cup
    {[EmptyBin EXCEPT ![NameTool] = [kind |-> "other", mode |-> m, src |-> <<>>]] :
        m \in Modes}

NoLog == [exists |-> FALSE, written |-> FALSE, content |-> <<>>]
StaleLog == [exists |-> TRUE, written |-> FALSE, content |-> <<"o", "l", "d">>]

EmptyStaging == [d \in Dirs |-> [n \in Names |-> NoFile]]

StagedFiles == {<<d, n>> \in Dirs \X Names : staging[d][n] # NoFile}

\* the runs explored: every package list with every state of the file command
\* and of the bin directory; the other inputs are varied one at a time, the
\* architecture over the lists of one package
BatchInputs ==
    {a \in [packages_given : BOOLEAN, target_arch : TargetArchs,
            soar_script : BOOLEAN, mkdir : BOOLEAN, file_cmd : BOOLEAN,
            parsed : PackageLists, bin0 : PreBins, log0 : {NoLog, StaleLog}] :
        /\ a.packages_given = (a.parsed # <<>>)
        /\ a.target_arch # "x86_64" => Len(a.parsed) <= 1
        /\ (IF a.target_arch # "x86_64" THEN 1 ELSE 0)
           + (IF ~a.soar_script THEN 1 ELSE 0)
           + (IF ~a.mkdir THEN 1 ELSE 0)
           + (IF a.log0 # NoLog THEN 1 ELSE 0)
           + (IF ~a.file_cmd \/ a.bin0 # EmptyBin THEN 1 ELSE 0) <= 1}

NoBatchArgs ==
    [packages_given |-> FALSE, target_arch |-> "x86_64", soar_script |-> FALSE,
     mkdir |-> FALSE, file_cmd |-> FALSE, parsed |-> <<>>, bin0 |-> EmptyBin,
     log0 |-> NoLog]

BatchDie == b_pc' = "exited" /\ b_exit' = 1

\* main() up to the fetch loop: parse_args, the soar script, the output
\* directory, map_arch, parse_packages
BatchSetup ==
    /\ b_pc = "main"
    /\ UNCHANGED <<resolver_vars, parse_vars>>
    /\ IF ~b_args.packages_given \/ ~b_args.soar_script \/ ~b_args.mkdir
         THEN BatchDie /\ UNCHANGED <<b_arch, packages>>
       ELSE /\ b_arch' = map_arch(b_args.target_arch)
            /\ packages' = b_args.parsed
            /\ IF b_args.parsed = <<>>
                 THEN BatchDie
                 ELSE b_pc' = "fetch" /\ b_exit' = b_exit
    /\ UNCHANGED <<b_args, b_i, failures, invocations, staging, bin, failed_log,
                   stdout, walked>>

\* one pass of main()'s fetch loop: fetch_package(repo, arch, base_temp_path, soar_script)
FetchPackage ==
    /\ b_pc = "fetch"
    /\ UNCHANGED <<resolver_vars, parse_vars>>
    /\ \E run \in ResolverRuns :
        LET r == packages[b_i]
            dir == temp_fetch_dir(r)
            success == fetch_package(run)
        IN /\ invocations' = Append(invocations,
                 [repo |-> r, arch |-> b_arch, dest |-> dir,
                  dest_empty |-> \A n \in Names : staging[dir][n] = NoFile,
                  run |-> run, success |-> success])
           /\ staging' = IF run.staged = NoFile THEN staging
                         ELSE [staging EXCEPT ![dir][run.staged.name] =
                                 [kind |-> run.staged.kind, mode |-> run.staged.mode]]
           /\ failures' = main_failures(failures, r, success)
    /\ b_i' = b_i + 1
    /\ b_pc' = IF b_i = Len(packages) THEN "process" ELSE "fetch"
    /\ UNCHANGED <<b_args, b_arch, packages, bin, failed_log, stdout, walked, b_exit>>

\* one pass of the loop of process_downloaded_files, over the staged files in
\* the order rglob yields them; shutil.copy2 may raise
ProcessFile ==
    /\ b_pc = "process"
    /\ UNCHANGED <<resolver_vars, parse_vars>>
    /\ \E f \in StagedFiles \ walked : \E copy_elf, copy_script \in BOOLEAN :
        LET dir == f[1]
            base_name == f[2]
            file == staging[dir][base_name]
            copied == [kind |-> file.kind, mode |-> file.mode, src |-> dir]
        IN /\ walked' = walked \cup {f}
           /\ IF dest_path_exists(bin, base_name)
                THEN /\ stdout' = stdout \cup {[msg |-> "skip existing", name |-> base_name]}
                     /\ bin' = bin
              ELSE IF is_elf_binary(StagedPath(dir, base_name), file.kind, b_args.file_cmd)
                      /\ copy_elf
                THEN /\ stdout' = stdout \cup {[msg |-> "copied binary", name |-> base_name]}
                     /\ bin' = [bin EXCEPT ![base_name] = copied]
              ELSE IF is_shebang_script(file.kind) /\ copy_script
                THEN /\ stdout' = stdout \cup {[msg |-> "copied script", name |-> base_name]}
                     /\ bin' = [bin EXCEPT ![base_name] = copied]
              ELSE /\ stdout' = stdout \cup {[msg |-> "ignored", name |-> base_name]}
                   /\ bin' = bin
    /\ UNCHANGED <<b_args, b_pc, b_arch, packages, b_i, failures, invocations, staging,
                   failed_log, b_exit>>

\* the files of bin, which bin_dir.rglob("*") yields in the order of the
\* directory listing
BinFiles == {n \in Names : bin[n] # NoFile}

\* no file raised
NoName == <<>>

\* the files of bin that were there before the run: another user may own them
Foreign == {n \in BinFiles : bin[n].src = <<>>}

\* set_executable_permissions(output_bin_dir), then the end of the
\* "with tempfile.TemporaryDirectory()" block removes base_temp. The loop over
\* the files of bin is inside one try: when chmod raises for a file the loop
\* ends there with a warning and the files not yet visited keep their mode.
\* The raise is explored for the files the run did not create itself
SetExecutablePermissions ==
    /\ b_pc = "process"
    /\ UNCHANGED <<resolver_vars, parse_vars>>
    /\ StagedFiles \subseteq walked
    /\ \E raised_at \in {NoName} \cup Foreign : \E visited \in SUBSET BinFiles :
        /\ raised_at = NoName => visited = BinFiles
        /\ raised_at # NoName => raised_at \notin visited
        /\ bin' = [n \in Names |->
                     IF n \in visited
                       THEN [bin[n] EXCEPT !.mode = new_mode(bin[n].mode)]
                       ELSE bin[n]]
        /\ stdout' = IF raised_at = NoName THEN stdout
                      ELSE stdout \cup {[msg |-> "warning chmod", name |-> raised_at]}
    /\ staging' = EmptyStaging
    /\ b_pc' = "report"
    /\ UNCHANGED <<b_args, b_arch, packages, b_i, failures, invocations, failed_log,
                   walked, b_exit>>

\* main(): the failure log, the listing, sys.exit(0)
Report ==
    /\ b_pc = "report"
    /\ UNCHANGED <<resolver_vars, parse_vars>>
    /\ failed_log' = IF main_writes_log(failures)
                       THEN [exists |-> TRUE, written |-> TRUE,
                             content |-> failed_line(failures)]
                       ELSE failed_log
    /\ b_pc' = "exited"
    /\ b_exit' = 0
    /\ UNCHANGED <<b_args, b_arch, packages, b_i, failures, invocations, staging, bin,
                   stdout, walked>>

BatchNext ==
    \/ BatchSetup
    \/ FetchPackage
    \/ ProcessFile
    \/ SetExecutablePermissions
    \/ Report

----------------------------------------------------------------------------
\* parse_packages on a manifest file

\* the longest manifest, and the longest entry of one
MaxEntries == 2
MaxEntryLen == 2

Chars == {" ", "a"}
Whitespace == {" ", "\n"}

Entries == UNION {[1..n -> Chars] : n \in 0..MaxEntryLen}
EntryLists == UNION {[1..n -> Entries] : n \in 0..MaxEntries}

\* Python: s.strip()
RECURSIVE LStrip(_)
LStrip(s) ==
    IF s # <<>> /\ Head(s) \in Whitespace THEN LStrip(Tail(s)) ELSE s

RECURSIVE RStrip(_)
RStrip(s) ==
    IF s # <<>> /\ s[Len(s)] \in Whitespace THEN RStrip(SubSeq(s, 1, Len(s) - 1)) ELSE s

Strip(s) == RStrip(LStrip(s))

\* Python: s.split(sep) for a single character
RECURSIVE Split(_, _)
Split(s, sep) ==
    IF \A i \in 1..Len(s) : s[i] # sep THEN <<s>>
    ELSE LET k == CHOOSE i \in 1..Len(s) : s[i] = sep /\ \A j \in 1..(i - 1) : s[j] # sep
         IN <<SubSeq(s, 1, k - 1)>> \o Split(SubSeq(s, k + 1, Len(s)), sep)

\* [f(x) for x in list]
StripAll(list) == [i \in 1..Len(list) |-> Strip(list[i])]

\* the three manifest files written from a list of entries: the JSON documents
\* as the value json.loads returns for them, the text file as its characters
JsonObjectFile(L) == [json |-> TRUE, data |-> [type |-> "dict", packages |-> L], text |-> <<>>]
JsonArrayFile(L) == [json |-> TRUE, data |-> [type |-> "list", packages |-> L], text |-> <<>>]
TextFile(L) == [json |-> FALSE, data |-> [type |-> None, packages |-> <<>>],
                text |-> Join(L, <<"\n">>)]

\* parse_packages: "[str(p).strip() for p in packages if p]"
json_entries(pkgs) ==
    StripAll(SelectSeq(pkgs, LAMBDA p : p # <<>>))

\* parse_packages: "[line.strip() for line in content.split("\n") if line.strip()]"
text_entries(content) ==
    StripAll(SelectSeq(Split(content, "\n"), LAMBDA line : Strip(line) # <<>>))

Parsed(list) == [done |-> TRUE, died |-> FALSE, packages |-> list]
ParseDied == [done |-> TRUE, died |-> TRUE, packages |-> <<>>]
Unparsed == [done |-> FALSE, died |-> FALSE, packages |-> <<>>]

\* parse_packages(packages_arg) when packages_arg names a file
parse_packages(file) ==
    IF file.json
      THEN \* content starts with "{" or "[" and json.loads succeeds
           IF file.data.type \in {"dict", "list"}
             THEN Parsed(json_entries(file.data.packages))
             ELSE ParseDied
      ELSE LET content == Strip(file.text)
           IN IF content # <<>> /\ Head(content) \in {"{", "["}
                THEN ParseDied   \* no text over Chars is a JSON document
                ELSE Parsed(text_entries(content))

Shapes == {"object", "array", "text"}

ParseJsonObject ==
    /\ p_pc = "parse"
    /\ UNCHANGED <<resolver_vars, batch_vars>>
    /\ ~p_result["object"].done
    /\ p_result' = [p_result EXCEPT !["object"] = parse_packages(JsonObjectFile(p_entries))]
    /\ UNCHANGED <<p_entries, p_pc>>

ParseJsonArray ==
    /\ p_pc = "parse"
    /\ UNCHANGED <<resolver_vars, batch_vars>>
    /\ ~p_result["array"].done
    /\ p_result' = [p_result EXCEPT !["array"] = parse_packages(JsonArrayFile(p_entries))]
    /\ UNCHANGED <<p_entries, p_pc>>

ParseTextFile ==
    /\ p_pc = "parse"
    /\ UNCHANGED <<resolver_vars, batch_vars>>
    /\ ~p_result["text"].done
    /\ p_result' = [p_result EXCEPT !["text"] = parse_packages(TextFile(p_entries))]
    /\ UNCHANGED <<p_entries, p_pc>>

ParseNext ==
    \/ ParseJsonObject
    \/ ParseJsonArray
    \/ ParseTextFile

----------------------------------------------------------------------------
\* Specifications: one program per specification, the others idle

ResolverInit ==
    /\ args \in [repo : Repos, help : BOOLEAN, dest : BOOLEAN, arch : ArchArgs]
    /\ env \in [machine : Machines, soar : BOOLEAN, mkdir : BOOLEAN]
    /\ pc = "parse_args"
    /\ arch = None
    /\ regex_i = 1
    /\ attempts = <<>>
    /\ last = NoLast
    /\ dest_dir = EmptyDir
    /\ exit_code = -1
    /\ b_args = NoBatchArgs
    /\ b_pc = "idle"
    /\ b_arch = None
    /\ packages = <<>>
    /\ b_i = 1
    /\ failures = <<>>
    /\ invocations = <<>>
    /\ staging = EmptyStaging
    /\ bin = EmptyBin
    /\ failed_log = NoLog
    /\ stdout = {}
    /\ walked = {}
    /\ b_exit = -1
    /\ p_entries = <<>>
    /\ p_pc = "idle"
    /\ p_result = [s \in Shapes |-> Unparsed]

BatchInit ==
    /\ b_args \in BatchInputs
    /\ b_pc = "main"
    /\ b_arch = None
    /\ packages = <<>>
    /\ b_i = 1
    /\ failures = <<>>
    /\ invocations = <<>>
    /\ staging = EmptyStaging
    /\ bin = b_args.bin0
    /\ failed_log = b_args.log0
    /\ stdout = {}
    /\ walked = {}
    /\ b_exit = -1
    /\ args = NoArgs
    /\ env = NoEnv
    /\ pc = "idle"
    /\ arch = None
    /\ regex_i = 1
    /\ attempts = <<>>
    /\ last = NoLast
    /\ dest_dir = EmptyDir
    /\ exit_code = -1
    /\ p_entries = <<>>
    /\ p_pc = "idle"
    /\ p_result = [s \in Shapes |-> Unparsed]

ParseInit ==
    /\ p_entries \in EntryLists
    /\ p_pc = "parse"
    /\ p_result = [s \in Shapes |-> Unparsed]
    /\ args = NoArgs
    /\ env = NoEnv
    /\ pc = "idle"
    /\ arch = None
    /\ regex_i = 1
    /\ attempts = <<>>
    /\ last = NoLast
    /\ dest_dir = EmptyDir
    /\ exit_code = -1
    /\ b_args = NoBatchArgs
    /\ b_pc = "idle"
    /\ b_arch = None
    /\ packages = <<>>
    /\ b_i = 1
    /\ failures = <<>>
    /\ invocations = <<>>
    /\ staging = EmptyStaging
    /\ bin = EmptyBin
    /\ failed_log = NoLog
    /\ stdout = {}
    /\ walked = {}
    /\ b_exit = -1

SpecResolver == ResolverInit /\ [][ResolverNext]_vars

SpecBatch == BatchInit /\ [][BatchNext]_vars

SpecParse == ParseInit /\ [][ParseNext]_vars

----------------------------------------------------------------------------
\* Claims about the Asset Resolver (checked under SpecResolver)

\* the subprocesses of a run in which every attempt fails, in order
ExpectedOrder(a) ==
    [i \in 1..Len(get_regex_list(a)) |-> [tier |-> "tier1", regex |-> get_regex_list(a)[i]]]
    \o <<[tier |-> "tier2", regex |-> None]>>
    \o [i \in 1..Len(get_generic_regex_list(a)) |->
          [tier |-> "tier3", regex |-> get_generic_regex_list(a)[i]]]

\* C1: the subprocesses spawned so far are a prefix of the fixed order Tier 1
\* (musl patterns in list order), Tier 2, Tier 3 (generic patterns in list
\* order); only the last one spawned can have succeeded, so nothing is spawned
\* after a success; a success ends the run at once with exit code 0; and a run
\* that spawned a subprocess exits 1 exactly when every attempt of all three
\* tiers was made and failed.
C1_FallbackOrder ==
    LET n == Len(attempts)
        order == ExpectedOrder(arch)
    IN /\ n > 0 => n <= Len(order)
       /\ \A i \in 1..n :
            /\ attempts[i].tier = order[i].tier
            /\ attempts[i].cmd.regex = order[i].regex
       /\ \A i \in 1..(n - 1) : ~attempts[i].ok
       /\ (n > 0 /\ attempts[n].ok) => (pc = "exited" /\ exit_code = 0)
       /\ (n > 0 /\ pc = "exited") =>
            /\ exit_code = 0 <=> attempts[n].ok
            /\ exit_code = 1 <=> (n = Len(order) /\ \A i \in 1..n : ~attempts[i].ok)

\* every pattern of Tier 1, then Tier 2, then every pattern of Tier 3 but the
\* last failed, and the last pattern of Tier 3 succeeded
C1_Witness ==
    /\ pc = "exited"
    /\ exit_code = 0
    /\ Len(attempts) = Len(ExpectedOrder(arch))
    /\ attempts[Len(attempts)].tier = "tier3"

\* C4: a GitHub-scoped attempt is judged successful if and only if at least one
\* file exists in the directory soar was told to extract into (--extract-dir)
\* when the subprocess has exited, whatever its exit code.
C4_SuccessIffExtracted ==
    (last.tier \in {"tier1", "tier3"} /\ ~last.raised) =>
        (last.ok <=> \E n \in Names : dest_dir[n] # NoFile)

\* C8: a run that is not a help request and whose repository identifier does
\* not hold exactly one '/' spawns no subprocess and exits with code 1.
C8_MalformedRepoIsFatal ==
    (~args.help /\ Count(args.repo, "/") # 1) =>
        /\ attempts = <<>>
        /\ pc = "exited" => exit_code = 1

\* C9: after exit code 0, every file the successful tier left in the
\* destination directory that begins with the ELF magic or with '#!' has the
\* user-, group- and other-executable bits set.
C9_ExecutableAfterSuccess ==
    (pc = "exited" /\ exit_code = 0) =>
        \A n \in Names :
            (dest_dir[n] # NoFile /\ dest_dir[n].ok /\ dest_dir[n].kind \in {"elf", "shebang"})
                => HasBits(dest_dir[n].mode, ExecBits)

\* C12: every GitHub-scoped subprocess (Tier 1, Tier 3) is told to extract
\* into a temporary location that is not the destination directory, and no
\* file in the destination directory was left there by a GitHub-scoped attempt
\* that was judged failed.
C12_FailedAttemptsLeaveNothing ==
    /\ \A i \in 1..Len(attempts) :
         attempts[i].tier \in {"tier1", "tier3"} => attempts[i].cmd.extract_dir # "dest"
    /\ \A n \in Names :
         (dest_dir[n] # NoFile /\ dest_dir[n].tier \in {"tier1", "tier3"})
            => dest_dir[n].ok

----------------------------------------------------------------------------
\* Claims about the Batch Orchestrator (checked under SpecBatch)

\* the identifiers whose resolver did not exit 0, by position, in order
RECURSIVE FailedRepos(_)
FailedRepos(log) ==
    IF log = <<>> THEN <<>>
    ELSE (IF Head(log).run.outcome = "exit0" THEN <<>> ELSE <<Head(log).repo>>)
         \o FailedRepos(Tail(log))

\* C2: for a non-empty parsed list and whatever each resolver does (exit 0,
\* non-zero exit, timeout, raised error), the resolvers spawned so far are the
\* identifiers of the list in order, one per position; every non-success is in
\* the failure list; the run does not stop before all of them were tried, and
\* it ends with exit status 0.
C2_EveryPackageTried ==
    LET n == Len(invocations)
    IN /\ n <= Len(packages)
       /\ \A i \in 1..n : invocations[i].repo = packages[i]
       /\ failures = FailedRepos(invocations)
       /\ packages # <<>> =>
            /\ b_pc \in {"process", "report", "exited"} => n = Len(packages)
            /\ b_pc = "exited" => b_exit = 0
            /\ b_pc # "exited" => ENABLED BatchNext

\* a timeout for the first identifier and a raised error for the second, and
\* the run still ended with exit status 0
C2_Witness ==
    /\ b_pc = "exited"
    /\ b_exit = 0
    /\ Len(invocations) = 2
    /\ invocations[1].run.outcome = "timeout"
    /\ invocations[2].run.outcome = "error"

\* a run of two identifiers with separate staging directories in which the
\* first resolver exits 0 and the second does not
OkThenBad ==
    /\ Len(packages) = 2
    /\ Len(invocations) = 2
    /\ invocations[1].dest # invocations[2].dest
    /\ invocations[1].run.outcome = "exit0"
    /\ invocations[2].run.outcome # "exit0"

\* the report file holds the line for exactly the failed identifiers, and was
\* written by this run if and only if one failed
ReportIsExact ==
    /\ failed_log.written <=> FailedRepos(invocations) # <<>>
    /\ failed_log.written => failed_log.content = failed_line(FailedRepos(invocations))
    /\ ~failed_log.written => failed_log = b_args.log0

\* is_elf_binary or is_shebang_script accepts the staged file
Classified(dir, f) ==
    \/ is_elf_binary(StagedPath(dir, f.name), f.kind, b_args.file_cmd)
    \/ is_shebang_script(f.kind)

\* C3 as claimed: at the end of a run the report is exact, and a run of
\* [ok/repo, bad/repo] where only bad/repo fails has exit code 0, a report of
\* exactly bad/repo, and at least one file of ok/repo in bin.
C3_ReportAndOkFile ==
    (b_pc = "exited" /\ packages # <<>>) =>
        /\ ReportIsExact
        /\ OkThenBad =>
             /\ b_exit = 0
             /\ failed_log.content = failed_line(<<packages[2]>>)
             /\ \E n \in Names : bin[n] # NoFile /\ bin[n].src = invocations[1].dest

\* C3 as amended: the same, but bin is only sure to hold a file of ok/repo when
\* ok/repo staged a file that is classified binary or script, no file of that
\* name was in bin before the run or staged by bad/repo, and its copy did not
\* fail (a failed copy is logged as ignored).
C3_ReportAndOkFileAmended ==
    (b_pc = "exited" /\ packages # <<>>) =>
        /\ ReportIsExact
        /\ OkThenBad =>
             /\ b_exit = 0
             /\ failed_log.content = failed_line(<<packages[2]>>)
             /\ LET f == invocations[1].run.staged
                    g == invocations[2].run.staged
                IN (/\ f # NoFile
                    /\ Classified(invocations[1].dest, f)
                    /\ b_args.bin0[f.name] = NoFile
                    /\ g # NoFile => g.name # f.name
                    /\ [msg |-> "ignored", name |-> f.name] \notin stdout)
                   => (bin[f.name] # NoFile /\ bin[f.name].src = invocations[1].dest)

\* ok/repo staged a file that reached bin, bad/repo failed, and the report
\* was written
C3_Witness ==
    /\ b_pc = "exited"
    /\ OkThenBad
    /\ failed_log.written
    /\ invocations[1].run.staged # NoFile
    /\ bin[invocations[1].run.staged.name] # NoFile
    /\ bin[invocations[1].run.staged.name].src = invocations[1].dest

\* the staged file a step of process_downloaded_files visits
Visited == CHOOSE f \in walked' \ walked : TRUE

\* the visit of a staged file whose name bin already holds changes nothing in
\* bin and logs the skip
SkipsAreLogged ==
    (walked' # walked /\ bin[Visited[2]] # NoFile) =>
        /\ bin' = bin
        /\ [msg |-> "skip existing", name |-> Visited[2]] \in stdout'

\* C5 as claimed: a file that is in bin stays there unchanged for the rest of
\* the run, whether it was there before the run or was copied earlier, and the
\* incoming file of the same name is skipped with a skip message.
C5_ExistingRetainedUnchanged ==
    [][/\ \A n \in Names : bin[n] # NoFile => bin'[n] = bin[n]
       /\ SkipsAreLogged]_vars

\* C5 as amended: a file that is in bin keeps its content and origin for the
\* rest of the run and loses no permission bit (the run adds the executable
\* bits to it), and the incoming file of the same name is skipped with a skip
\* message.
C5_ExistingRetainedAmended ==
    [][/\ \A n \in Names : bin[n] # NoFile =>
            /\ bin'[n] # NoFile
            /\ bin'[n].kind = bin[n].kind
            /\ bin'[n].src = bin[n].src
            /\ HasBits(bin'[n].mode, bin[n].mode)
       /\ SkipsAreLogged]_vars

\* a file that was in bin before the run met a staged file of its name: the
\* skip was logged, the file is still the old one, with the executable bits added
C5_Witness ==
    /\ b_pc = "exited"
    /\ b_args.bin0[NameTool] # NoFile
    /\ [msg |-> "skip existing", name |-> NameTool] \in stdout
    /\ bin[NameTool].src = <<>>
    /\ bin[NameTool].mode # b_args.bin0[NameTool].mode

\* C6: every file the run added to bin begins with the ELF magic or with '#!':
\* a staged file with neither is never copied, whatever its name.
C6_UnrecognizedNeverCopied ==
    \A n \in Names :
        (bin[n] # NoFile /\ bin[n].src # <<>>) => bin[n].kind \in {"elf", "shebang"}

\* C7: the architecture handed to the resolvers is the one the resolver's alias
\* table (validate_arch) gives for --target-arch, and a value the table does not
\* know is fatal: no resolver is spawned and the run exits 1.
C7_SameAliasTable ==
    /\ b_arch # None => b_arch = validate_arch(b_args.target_arch)
    /\ \A i \in 1..Len(invocations) :
         invocations[i].arch = validate_arch(b_args.target_arch)
    /\ (validate_arch(b_args.target_arch) = None /\ b_pc = "exited") => b_exit = 1

\* C13: the staging directories handed to the resolvers of one run as --dest
\* are pairwise different, for distinct and for repeated identifiers alike,
\* and each is empty when its resolver starts.
C13_FreshStagingDirs ==
    /\ \A i, j \in 1..Len(invocations) :
         i < j => invocations[i].dest # invocations[j].dest
    /\ \A j \in 1..Len(invocations) : invocations[j].dest_empty

----------------------------------------------------------------------------
\* Claims about parse_packages (checked under SpecParse)

\* the non-blank entries of L, stripped, in order
NonBlankStripped(L) == SelectSeq(StripAll(L), LAMBDA e : e # <<>>)

\* C10: the JSON object, the bare JSON array and the text file written from a
\* list L all parse to the non-blank entries of L, stripped, in order, and no
\* parsed list holds an empty or blank entry.
C10_ShapesParseAlike ==
    \A sh \in Shapes :
        p_result[sh].done =>
            /\ ~p_result[sh].died
            /\ p_result[sh].packages = NonBlankStripped(p_entries)
            /\ \A i \in 1..Len(p_result[sh].packages) :
                 Strip(p_result[sh].packages[i]) # <<>>

----------------------------------------------------------------------------
\* Claims about set_executable_permissions (checked under SpecBatch)

\* the permission bits of a file mode: 0o000 .. 0o777
PermissionBits == 0..511

\* applying new_mode twice gives what applying it once gives, every bit set
\* before is set after, and the three executable bits are set after
NormalizationLaws ==
    \A m \in PermissionBits :
        /\ new_mode(new_mode(m)) = new_mode(m)
        /\ HasBits(new_mode(m), m)
        /\ HasBits(new_mode(m), ExecBits)

\* the mode a file of bin had when it came into bin: before the run, or as
\* shutil.copy2 copied it from the staged file of the last resolver that wrote
\* that name into that directory
ModeBefore(n) ==
    IF bin[n].src = <<>> THEN b_args.bin0[n].mode
    ELSE LET from == {i \in 1..Len(invocations) :
                        /\ invocations[i].dest = bin[n].src
                        /\ invocations[i].run.staged # NoFile
                        /\ invocations[i].run.staged.name = n}
             i == CHOOSE i \in from : \A j \in from : j <= i
         IN invocations[i].run.staged.mode

\* set_executable_permissions has run
Normalized == b_pc = "report" \/ (b_pc = "exited" /\ b_exit = 0)

====
